---- MODULE Spec2Model ----
(***************************************************************************)
(* The address registry (IPAM) of kube-ovn: a name-keyed map of Subnets    *)
(* behind one sync.RWMutex.  The registry methods are translated from      *)
(* pkg/ipam (second half of src/pkg/daemon/gateway.go).  The Subnet and    *)
(* the interval algebra it delegates to, and the pkg/util helpers, are     *)
(* not part of the source at hand; they follow sections 3 and 4 of the     *)
(* specification.                                                          *)
(*                                                                         *)
(* Addresses of one family are the integers 1..MaxAddr; 0 stands for the   *)
(* empty string "" that the Go code uses for "no address" / "no MAC".      *)
(***************************************************************************)
EXTENDS Integers, Sequences, FiniteSets, TLC

----------------------------------------------------------------------------
(* Bounds *)

MaxAddr == 2

NumPods == 2

MaxCalls == 5

NumProcs == 2

MaxConcCalls == 4

RaceN == 3
\* The pods lister holds at most MaxPodList pods.
MaxPodList == 2

----------------------------------------------------------------------------
(* Values *)

Empty == 0

OutOfRangeError == "AddressOutOfRange"

ConflictError == "AddressConflict"

NoAvailableError == "NoAvailableAddress"

InvalidCIDRError == "CIDRInvalid"

Nil == "nil"

ProtocolIPv4 == "IPv4"

ProtocolIPv6 == "IPv6"

ProtocolDual == "Dual"

Families == {"v4", "v6"}

Addrs == 1..MaxAddr

Pods == 1..NumPods

SubnetNames == {"s1", "s2"}

\* An address string handed to GetStaticAddress: one address, or "v4,v6".
IPStrings ==
    [proto : {ProtocolIPv4}, v4 : Addrs, v6 : {Empty}]
      \cup [proto : {ProtocolIPv6}, v4 : {Empty}, v6 : {1}]
      \cup [proto : {ProtocolDual}, v4 : Addrs, v6 : 1..2]

\* The strings that hold one address.
AddressStrings == {ip \in IPStrings : ip.proto # ProtocolDual}

\* A CIDR block of one family is the closed range <<first, last>>; <<>> is a
\* text that does not parse.
NoCIDR == <<>>

V4Blocks == {<<1, MaxAddr>>, <<1, 1>>}

V6Blocks == {<<1, 1>>}

\* A CIDR string handed to AddOrUpdateSubnet: one block, a "v4,v6" pair, or
\* a text in which a block does not parse.
CIDRStrings ==
    [proto : {ProtocolIPv4}, v4 : V4Blocks \cup {NoCIDR}, v6 : {NoCIDR}]
      \cup [proto : {ProtocolIPv6}, v4 : {NoCIDR}, v6 : V6Blocks]
      \cup [proto : {ProtocolDual}, v4 : V4Blocks \cup {NoCIDR}, v6 : V6Blocks]

\* The second subnet name is only ever configured as one IPv4 block.
CIDRStringsFor(name) ==
    IF name = "s1" THEN CIDRStrings
    ELSE [proto : {ProtocolIPv4}, v4 : {<<1, 1>>}, v6 : {NoCIDR}]

\* Exclusion lists: address strings of both families, mixed.
ExcludeLists ==
    {<<>>,
     <<[proto |-> ProtocolIPv6, v4 |-> Empty, v6 |-> 1],
       [proto |-> ProtocolIPv4, v4 |-> 1, v6 |-> Empty]>>}

----------------------------------------------------------------------------
(* pkg/util helpers *)

CheckProtocol(str) == str.proto

\* net.ParseCIDR on a single-family text.
ParseCIDR(cidrStr) ==
    LET blk == IF cidrStr.proto = ProtocolIPv6 THEN cidrStr.v6 ELSE cidrStr.v4
    IN  [cidr |-> blk, err |-> IF blk = NoCIDR THEN "invalid CIDR address" ELSE Nil]

CheckDualCidrs(cidrStr) ==
    [v4 |-> cidrStr.v4, v6 |-> cidrStr.v6,
     err |-> IF cidrStr.v4 = NoCIDR \/ cidrStr.v6 = NoCIDR
             THEN "invalid CIDR address" ELSE Nil]

FirstSubnetIP(blk) == blk[1]

LastIP(blk) == blk[2]

CIDRContains(blk, a) == blk # NoCIDR /\ blk[1] <= a /\ a <= blk[2]

----------------------------------------------------------------------------
(* Interval algebra: an IPRangeList is a sequence of closed ranges <<s, e>> *)

Cover(list) == UNION {list[i][1]..list[i][2] : i \in DOMAIN list}

Contains(list, a) == \E i \in DOMAIN list : list[i][1] <= a /\ a <= list[i][2]

\* Remove address a from range i of the list, splitting that range.
SplitAt(list, i, a) ==
    SubSeq(list, 1, i - 1)
      \o (IF list[i][1] < a THEN <<<<list[i][1], a - 1>>>> ELSE <<>>)
      \o (IF a < list[i][2] THEN <<<<a + 1, list[i][2]>>>> ELSE <<>>)
      \o SubSeq(list, i + 1, Len(list))

AllocateExact(list, a) ==
    IF Contains(list, a)
    THEN LET i == CHOOSE j \in DOMAIN list :
                    /\ list[j][1] <= a /\ a <= list[j][2]
                    /\ \A k \in 1..(j - 1) : ~(list[k][1] <= a /\ a <= list[k][2])
         IN  [ok |-> TRUE, list |-> SplitAt(list, i, a)]
    ELSE [ok |-> FALSE, list |-> list]

\* Insert <<a, a>> in start order and merge it with a range that ends right
\* before a and with a range that starts right after a.
ReleaseRange(list, a) ==
    LET n    == Cardinality({i \in DOMAIN list : list[i][1] <= a})
        pre  == SubSeq(list, 1, n)
        post == SubSeq(list, n + 1, Len(list))
        mergeL == n >= 1 /\ list[n][2] + 1 = a
        mergeR == n < Len(list) /\ a + 1 = list[n + 1][1]
        s    == IF mergeL THEN list[n][1] ELSE a
        e    == IF mergeR THEN list[n + 1][2] ELSE a
    IN  (IF mergeL THEN SubSeq(pre, 1, n - 1) ELSE pre)
          \o <<<<s, e>>>>
          \o (IF mergeR THEN SubSeq(post, 2, Len(post)) ELSE post)

RECURSIVE RangesOf(_)
\* The sorted, merged range list that covers exactly the addresses of S.
RangesOf(S) ==
    IF S = {} THEN <<>>
    ELSE LET a == CHOOSE x \in S : \A y \in S : x <= y
             e == CHOOSE x \in S :
                     /\ \A y \in a..x : y \in S
                     /\ (x + 1) \notin S
         IN  <<<<a, e>>>> \o RangesOf({x \in S : x > e})

Subtract(list, other) == RangesOf(Cover(list) \ Cover(other))

Canonical(list) ==
    /\ \A i \in DOMAIN list : list[i][1] <= list[i][2]
    /\ \A i \in 1..(Len(list) - 1) : list[i][2] + 1 < list[i + 1][1]

----------------------------------------------------------------------------
(* Go maps: functions whose domain is the set of keys present *)

EmptyMap == <<>>

MapPut(m, k, v) == [x \in (DOMAIN m) \cup {k} |-> IF x = k THEN v ELSE m[x]]

MapDel(m, k) == [x \in (DOMAIN m) \ {k} |-> m[x]]

MapGet(m, k) == IF k \in DOMAIN m THEN m[k] ELSE Empty

----------------------------------------------------------------------------
(* Subnet: one CIDR per family, a free and a reserved range list per       *)
(* family, the owner <-> address maps per family and the owner -> MAC map  *)

FamiliesOf(protocol) ==
    CASE protocol = ProtocolIPv4 -> {"v4"}
      [] protocol = ProtocolIPv6 -> {"v6"}
      [] protocol = ProtocolDual -> {"v4", "v6"}
      [] OTHER -> {}

AddrOf(ipStr, fam) == IF fam = "v4" THEN ipStr.v4 ELSE ipStr.v6

splitIpsByProtocol(excludeIps) ==
    [v4 |-> {excludeIps[i].v4 : i \in {j \in DOMAIN excludeIps : excludeIps[j].proto = ProtocolIPv4}},
     v6 |-> {excludeIps[i].v6 : i \in {j \in DOMAIN excludeIps : excludeIps[j].proto = ProtocolIPv6}}]

convertExcludeIps(ips) == RangesOf(ips)

\* free := free minus reserved, for both families.
joinFreeWithReserve(sub) ==
    [sub EXCEPT !.FreeIPList =
        [f \in Families |-> Subtract(sub.FreeIPList[f], sub.ReservedIPList[f])]]

NewSubnet(name, cidrStr, excludeIps) ==
    LET protocol == CheckProtocol(cidrStr)
        fams == FamiliesOf(protocol)
        blk  == [f \in Families |-> IF f \in fams THEN AddrOf(cidrStr, f) ELSE NoCIDR]
        excl == splitIpsByProtocol(excludeIps)
        bad  == \E f \in fams : blk[f] = NoCIDR
        sub  == [Protocol |-> protocol,
                 CIDR |-> blk,
                 FreeIPList |-> [f \in Families |->
                     IF f \in fams /\ ~bad
                     THEN <<<<FirstSubnetIP(blk[f]), LastIP(blk[f])>>>> ELSE <<>>],
                 ReservedIPList |-> [f \in Families |->
                     IF f \in fams THEN convertExcludeIps(excl[f]) ELSE <<>>],
                 PodToIP |-> [f \in Families |-> EmptyMap],
                 IPToPod |-> [f \in Families |-> EmptyMap],
                 PodToMac |-> EmptyMap]
    IN  [subnet |-> joinFreeWithReserve(sub),
         err |-> IF bad THEN InvalidCIDRError ELSE Nil]

\* A generated MAC is unique in its subnet; the MAC generated for an owner
\* is represented by that owner's number.
GetRandomMac(sub, podName) == podName

\* The MAC a call records: the given one, else the recorded one, else a
\* generated one.
MacFor(sub, podName, mac) ==
    IF mac # Empty THEN mac
    ELSE IF podName \in DOMAIN sub.PodToMac THEN sub.PodToMac[podName]
    ELSE GetRandomMac(sub, podName)

Record(sub, podName, fam, a, mac) ==
    [sub EXCEPT !.PodToIP[fam] = MapPut(@, podName, a),
                !.IPToPod[fam] = MapPut(@, a, podName),
                !.PodToMac = MapPut(@, podName, mac)]

\* No owner is ever taken to hold an assignment: every GetRandomAddress
\* call allocates afresh.
HasAddressNever(sub, podName) == FALSE

\* The owner already holds an assignment in this subnet.
HasAddress(sub, podName) == \E f \in Families : podName \in DOMAIN sub.PodToIP[f]

\* allocateAny: every <<range index, address>> the list can give out.
PicksOf(list) == UNION {{<<i, a>> : a \in list[i][1]..list[i][2]} : i \in DOMAIN list}

\* Every way of taking one address out of the free list of each family in
\* fams: a function fam -> <<range index, address>>.
Picks(sub, fams) ==
    {pk \in [fams -> UNION {PicksOf(sub.FreeIPList[f]) : f \in fams}] :
        \A f \in fams : pk[f] \in PicksOf(sub.FreeIPList[f])}

\* Subnet.GetRandomAddress: the set of possible outcomes.
SubnetGetRandomAddress(sub, podName) ==
    LET fams == FamiliesOf(sub.Protocol)
    IN  IF HasAddress(sub, podName)
        THEN {[subnet |-> sub,
               v4 |-> MapGet(sub.PodToIP["v4"], podName),
               v6 |-> MapGet(sub.PodToIP["v6"], podName),
               mac |-> MapGet(sub.PodToMac, podName), err |-> Nil]}
        ELSE IF \E f \in fams : sub.FreeIPList[f] = <<>>
        THEN {[subnet |-> sub, v4 |-> Empty, v6 |-> Empty, mac |-> Empty,
               err |-> NoAvailableError]}
        ELSE {[subnet |->
                  [sub EXCEPT
                     !.FreeIPList = [f \in Families |->
                         IF f \in fams THEN SplitAt(@[f], pk[f][1], pk[f][2]) ELSE @[f]],
                     !.PodToIP = [f \in Families |->
                         IF f \in fams THEN MapPut(@[f], podName, pk[f][2]) ELSE @[f]],
                     !.IPToPod = [f \in Families |->
                         IF f \in fams THEN MapPut(@[f], pk[f][2], podName) ELSE @[f]],
                     !.PodToMac = MapPut(@, podName, MacFor(sub, podName, Empty))],
               v4 |-> IF "v4" \in fams THEN pk["v4"][2] ELSE Empty,
               v6 |-> IF "v6" \in fams THEN pk["v6"][2] ELSE Empty,
               mac |-> MacFor(sub, podName, Empty), err |-> Nil] :
                 pk \in Picks(sub, fams)}

\* Subnet.GetStaticAddress(podName, ip, mac, force): the set of possible
\* outcomes.  force is the reconciling flag of a reconfiguration.
SubnetGetStaticAddress(sub, podName, fam, a, mac, force) ==
    LET fail(e) == {[subnet |-> sub, ip |-> Empty, mac |-> Empty, err |-> e]}
        done(s) == {[subnet |-> Record(s, podName, fam, a, MacFor(sub, podName, mac)),
                     ip |-> a, mac |-> MacFor(sub, podName, mac), err |-> Nil]}
        got == AllocateExact(sub.FreeIPList[fam], a)
    IN  IF ~CIDRContains(sub.CIDR[fam], a) THEN fail(OutOfRangeError)
        ELSE IF a \in DOMAIN sub.IPToPod[fam] /\ sub.IPToPod[fam][a] # podName
        THEN fail(ConflictError)
        ELSE IF force THEN done(sub)
        ELSE IF got.ok THEN done([sub EXCEPT !.FreeIPList[fam] = got.list])
        ELSE IF Contains(sub.ReservedIPList[fam], a) THEN fail(OutOfRangeError)
        ELSE fail(ConflictError)

RECURSIVE ReleaseFams(_, _, _)
ReleaseFams(sub, podName, fams) ==
    IF fams = {} THEN sub
    ELSE LET f == IF "v4" \in fams THEN "v4" ELSE "v6"
             a == sub.PodToIP[f][podName]
         IN  ReleaseFams(
                [sub EXCEPT !.PodToIP[f] = MapDel(@, podName),
                            !.IPToPod[f] = MapDel(@, a),
                            !.FreeIPList[f] = ReleaseRange(@, a)],
                podName, fams \ {f})

\* Subnet.ReleaseAddress
SubnetReleaseAddress(sub, podName) ==
    LET held == {f \in Families : podName \in DOMAIN sub.PodToIP[f]}
        s1 == ReleaseFams(sub, podName, held)
    IN  [s1 EXCEPT !.PodToMac = MapDel(@, podName)]

SubnetContainAddress(sub, fam, a) == CIDRContains(sub.CIDR[fam], a)

\* Subnet.GetPodAddress: what the maps hold for the owner, "" where they
\* hold nothing, and the protocol of the subnet.
SubnetGetPodAddress(sub, podName) ==
    [v4 |-> MapGet(sub.PodToIP["v4"], podName),
     v6 |-> MapGet(sub.PodToIP["v6"], podName),
     mac |-> MapGet(sub.PodToMac, podName),
     protocol |-> sub.Protocol]

----------------------------------------------------------------------------
(* State *)

VARIABLES
    Subnets,    \* IPAM.Subnets: subnet name -> Subnet, for the names present
    last,       \* the registry call that completed last, with what it returned
    ncalls,     \* the number of registry calls made so far
    procs,      \* concurrent callers: where each is in its call, and its result
    mutex,      \* IPAM.mutex: the readers inside, the writer that announced itself
    smutex,     \* per subnet name: the caller inside the Subnet, 0 if none
    ctrl        \* the daemon Controller: what runGateway reads, holds and writes

vars == <<Subnets, last, ncalls, procs, mutex, smutex, ctrl>>

NoIPString == [proto |-> "", v4 |-> Empty, v6 |-> Empty]

NoCIDRString == [proto |-> "", v4 |-> NoCIDR, v6 |-> NoCIDR]

NoCall ==
    [op |-> "none", pod |-> Empty, subnet |-> "", ip |-> NoIPString, mac |-> Empty,
     cidr |-> NoCIDRString, excl |-> <<>>,
     v4 |-> Empty, v6 |-> Empty, rmac |-> Empty, err |-> Nil,
     err4 |-> Nil, err6 |-> Nil, held |-> FALSE,
     had |-> {}, addresses |-> <<>>, contains |-> FALSE]

\* The registry on its own: no Controller runs.
NoController == [pc |-> "none"]

\* NewIPAM
Init ==
    /\ Subnets = EmptyMap
    /\ last = NoCall
    /\ ncalls = 0
    /\ procs = EmptyMap
    /\ mutex = [readers |-> {}, writer |-> 0]
    /\ smutex = [n \in SubnetNames |-> 0]
    /\ ctrl = NoController

----------------------------------------------------------------------------
(* IPAM methods, each as one call *)

\* Every call counts against the bound on the length of a run.
Count ==
    /\ ncalls < MaxCalls
    /\ ncalls' = ncalls + 1
    /\ UNCHANGED <<procs, mutex, smutex, ctrl>>

\* IPAM.GetRandomAddress that drops the error of the Subnet call.
IPAMGetRandomAddressDropsError(subs, podName, subnetName) ==
    IF subnetName \notin DOMAIN subs
    THEN {[Subnets |-> subs, v4 |-> Empty, v6 |-> Empty, mac |-> Empty,
           err |-> NoAvailableError]}
    ELSE {[Subnets |-> [subs EXCEPT ![subnetName] = r.subnet],
           v4 |-> r.v4, v6 |-> r.v6, mac |-> r.mac, err |-> Nil] :
             r \in SubnetGetRandomAddress(subs[subnetName], podName)}

\* What IPAM.GetRandomAddress may return, with the subnet map it leaves.
IPAMGetRandomAddress(subs, podName, subnetName) ==
    IF subnetName \notin DOMAIN subs
    THEN {[Subnets |-> subs, v4 |-> Empty, v6 |-> Empty, mac |-> Empty,
           err |-> NoAvailableError]}
    ELSE {[Subnets |-> [subs EXCEPT ![subnetName] = r.subnet],
           v4 |-> r.v4, v6 |-> r.v6, mac |-> r.mac, err |-> r.err] :
             r \in SubnetGetRandomAddress(subs[subnetName], podName)}

GetRandomAddress(podName, subnetName) ==
    /\ Count
    /\ \E r \in IPAMGetRandomAddress(Subnets, podName, subnetName) :
        /\ Subnets' = r.Subnets
        /\ last' = [NoCall EXCEPT !.op = "GetRandomAddress", !.pod = podName,
                       !.subnet = subnetName,
                       !.v4 = r.v4, !.v6 = r.v6, !.rmac = r.mac, !.err = r.err,
                       !.held = subnetName \in DOMAIN Subnets
                                  /\ HasAddress(Subnets[subnetName], podName)]

\* The dual branch: the v4 call, then the v6 call with the MAC the v4 call
\* returned; err is declared by the first := and assigned by the second.
StaticDual(sub, podName, ip, mac) ==
    UNION {{[subnet |-> r6.subnet, v4 |-> r4.ip, v6 |-> r6.ip, mac |-> r6.mac,
             err |-> r6.err, err4 |-> r4.err, err6 |-> r6.err] :
               r6 \in SubnetGetStaticAddress(r4.subnet, podName, "v6", ip.v6, r4.mac, FALSE)} :
             r4 \in SubnetGetStaticAddress(sub, podName, "v4", ip.v4, mac, FALSE)}

StaticSingle(sub, podName, ip, mac) ==
    LET protocol == CheckProtocol(ip)
        fam == IF protocol = ProtocolIPv4 THEN "v4" ELSE "v6"
    IN  {[subnet |-> r.subnet,
          v4 |-> IF protocol = ProtocolIPv4 THEN r.ip ELSE Empty,
          v6 |-> IF protocol = ProtocolIPv4 THEN Empty ELSE r.ip,
          mac |-> r.mac, err |-> r.err,
          err4 |-> IF fam = "v4" THEN r.err ELSE Nil,
          err6 |-> IF fam = "v6" THEN r.err ELSE Nil] :
            r \in SubnetGetStaticAddress(sub, podName, fam, AddrOf(ip, fam), mac, FALSE)}

\* IPAM.GetStaticAddress that reports no error for a name not in the map.
IPAMGetStaticAddressNoLookupError(subs, podName, ip, mac, subnetName) ==
    IF subnetName \notin DOMAIN subs
    THEN {[Subnets |-> subs, v4 |-> Empty, v6 |-> Empty, mac |-> Empty,
           err |-> Nil, err4 |-> Nil, err6 |-> Nil]}
    ELSE {[Subnets |-> [subs EXCEPT ![subnetName] = r.subnet],
           v4 |-> r.v4, v6 |-> r.v6, mac |-> r.mac, err |-> r.err,
           err4 |-> r.err4, err6 |-> r.err6] :
             r \in IF CheckProtocol(ip) = ProtocolDual
                   THEN StaticDual(subs[subnetName], podName, ip, mac)
                   ELSE StaticSingle(subs[subnetName], podName, ip, mac)}

\* What IPAM.GetStaticAddress may return, with the subnet map it leaves.
IPAMGetStaticAddress(subs, podName, ip, mac, subnetName) ==
    IF subnetName \notin DOMAIN subs
    THEN {[Subnets |-> subs, v4 |-> Empty, v6 |-> Empty, mac |-> Empty,
           err |-> NoAvailableError, err4 |-> Nil, err6 |-> Nil]}
    ELSE {[Subnets |-> [subs EXCEPT ![subnetName] = r.subnet],
           v4 |-> r.v4, v6 |-> r.v6, mac |-> r.mac, err |-> r.err,
           err4 |-> r.err4, err6 |-> r.err6] :
             r \in IF CheckProtocol(ip) = ProtocolDual
                   THEN StaticDual(subs[subnetName], podName, ip, mac)
                   ELSE StaticSingle(subs[subnetName], podName, ip, mac)}

GetStaticAddress(podName, ip, mac, subnetName) ==
    /\ Count
    /\ \E r \in IPAMGetStaticAddress(Subnets, podName, ip, mac, subnetName) :
        /\ Subnets' = r.Subnets
        /\ last' = [NoCall EXCEPT !.op = "GetStaticAddress", !.pod = podName,
                       !.subnet = subnetName, !.ip = ip, !.mac = mac,
                       !.v4 = r.v4, !.v6 = r.v6, !.rmac = r.mac, !.err = r.err,
                       !.err4 = r.err4, !.err6 = r.err6,
                       !.held = subnetName \in DOMAIN Subnets
                                  /\ HasAddress(Subnets[subnetName], podName)]

\* IPAM.ReleaseAddressByPod that stops after the subnet "s1".
IPAMReleaseAddressByPodOneSubnet(subs, podName) ==
    [n \in DOMAIN subs |->
        IF n = "s1" THEN SubnetReleaseAddress(subs[n], podName) ELSE subs[n]]

\* The subnet map that IPAM.ReleaseAddressByPod leaves.
IPAMReleaseAddressByPod(subs, podName) ==
    [n \in DOMAIN subs |-> SubnetReleaseAddress(subs[n], podName)]

ReleaseAddressByPod(podName) ==
    /\ Count
    /\ Subnets' = IPAMReleaseAddressByPod(Subnets, podName)
    /\ last' = [NoCall EXCEPT !.op = "ReleaseAddressByPod", !.pod = podName,
                   !.had = {n \in DOMAIN Subnets : HasAddress(Subnets[n], podName)}]

RECURSIVE Reconcile(_, _, _)
\* The loop over PodToIP of one family in the update path: every owner's
\* address is handed to GetStaticAddress with force; a failure is logged.
\* Go ranges over a map in no fixed order: the set of possible outcomes.
Reconcile(sub, fam, todo) ==
    IF todo = {} THEN {sub}
    ELSE UNION {UNION {Reconcile(r.subnet, fam, todo \ {p}) :
                         r \in SubnetGetStaticAddress(sub, p, fam, sub.PodToIP[fam][p],
                                                      MapGet(sub.PodToMac, p), TRUE)} :
                  p \in todo}

\* Lines 286-290 and 299-303: the reserved list from the exclusion list,
\* the free list = the whole new block, then joinFreeWithReserve.
RebuildFamily(sub, fam, blk, exclude) ==
    joinFreeWithReserve(
        [sub EXCEPT !.ReservedIPList[fam] = convertExcludeIps(exclude),
                    !.FreeIPList[fam] = <<<<FirstSubnetIP(blk), LastIP(blk)>>>>])

\* An update path that releases the owners whose address the new block does
\* not cover.
UpdateFamilyReleases(sub, fam, blk, exclude) ==
    LET s2 == RebuildFamily(sub, fam, blk, exclude)
        out == {p \in DOMAIN s2.PodToIP[fam] : ~CIDRContains(blk, s2.PodToIP[fam][p])}
        s3 == [s2 EXCEPT !.PodToIP[fam] = [p \in (DOMAIN @) \ out |-> @[p]]]
    IN  Reconcile(s3, fam, DOMAIN s3.PodToIP[fam])

\* One family of the update path: the rebuild of the lists, then the loop.
UpdateFamily(sub, fam, blk, exclude) ==
    LET s2 == RebuildFamily(sub, fam, blk, exclude)
    IN  Reconcile(s2, fam, DOMAIN s2.PodToIP[fam])

UpdateSubnet(sub, protocol, v4cidr, v6cidr, excl) ==
    LET s0 == {[sub EXCEPT !.Protocol = protocol]}
        s4 == IF protocol \in {ProtocolDual, ProtocolIPv4}
              THEN UNION {UpdateFamily(s, "v4", v4cidr, excl.v4) : s \in s0}
              ELSE s0
    IN  IF protocol \in {ProtocolDual, ProtocolIPv6}
        THEN UNION {UpdateFamily(s, "v6", v6cidr, excl.v6) : s \in s4}
        ELSE s4

\* The update path up to the first joinFreeWithReserve (line 290, or line
\* 303 for an IPv6 subnet): the lists are rebuilt, the loop has not run.
UpdateRebuild(sub, cidrStr, excludeIps) ==
    LET protocol == CheckProtocol(cidrStr)
        excl == splitIpsByProtocol(excludeIps)
        s0 == [sub EXCEPT !.Protocol = protocol]
    IN  IF protocol \in {ProtocolDual, ProtocolIPv4}
        THEN RebuildFamily(s0, "v4", cidrStr.v4, excl.v4)
        ELSE RebuildFamily(s0, "v6", cidrStr.v6, excl.v6)

\* IPAM.AddOrUpdateSubnet that logs a CIDR parse failure and returns nil.
IPAMAddOrUpdateSubnetSwallows(subs, name, cidrStr, excludeIps) ==
    LET protocol == CheckProtocol(cidrStr)
        parsed == IF protocol = ProtocolDual
                  THEN CheckDualCidrs(cidrStr)
                  ELSE [v4 |-> cidrStr.v4, v6 |-> cidrStr.v6, err |-> ParseCIDR(cidrStr).err]
        excl == splitIpsByProtocol(excludeIps)
        new == NewSubnet(name, cidrStr, excludeIps)
    IN  IF parsed.err # Nil THEN {[Subnets |-> subs, err |-> Nil]}
        ELSE IF name \in DOMAIN subs
        THEN {[Subnets |-> [subs EXCEPT ![name] = s], err |-> Nil] :
                s \in UpdateSubnet(subs[name], protocol, parsed.v4, parsed.v6, excl)}
        ELSE IF new.err # Nil THEN {[Subnets |-> subs, err |-> new.err]}
        ELSE {[Subnets |-> MapPut(subs, name, new.subnet), err |-> Nil]}

\* What IPAM.AddOrUpdateSubnet may return, with the subnet map it leaves.
IPAMAddOrUpdateSubnet(subs, name, cidrStr, excludeIps) ==
    LET protocol == CheckProtocol(cidrStr)
        parsed == IF protocol = ProtocolDual
                  THEN CheckDualCidrs(cidrStr)
                  ELSE [v4 |-> cidrStr.v4, v6 |-> cidrStr.v6, err |-> ParseCIDR(cidrStr).err]
        excl == splitIpsByProtocol(excludeIps)
        new == NewSubnet(name, cidrStr, excludeIps)
    IN  IF parsed.err # Nil THEN {[Subnets |-> subs, err |-> InvalidCIDRError]}
        ELSE IF name \in DOMAIN subs
        THEN {[Subnets |-> [subs EXCEPT ![name] = s], err |-> Nil] :
                s \in UpdateSubnet(subs[name], protocol, parsed.v4, parsed.v6, excl)}
        ELSE IF new.err # Nil THEN {[Subnets |-> subs, err |-> new.err]}
        ELSE {[Subnets |-> MapPut(subs, name, new.subnet), err |-> Nil]}

AddOrUpdateSubnet(name, cidrStr, excludeIps) ==
    /\ Count
    /\ \E r \in IPAMAddOrUpdateSubnet(Subnets, name, cidrStr, excludeIps) :
        /\ Subnets' = r.Subnets
        /\ last' = [NoCall EXCEPT !.op = "AddOrUpdateSubnet", !.subnet = name,
                       !.cidr = cidrStr, !.excl = excludeIps, !.err = r.err,
                       !.held = name \in DOMAIN Subnets]

\* IPAM.DeleteSubnet that empties the subnet map.
IPAMDeleteSubnetAll(subs, subnetName) == EmptyMap

\* The subnet map that IPAM.DeleteSubnet leaves.
IPAMDeleteSubnet(subs, subnetName) == MapDel(subs, subnetName)

DeleteSubnet(subnetName) ==
    /\ Count
    /\ Subnets' = IPAMDeleteSubnet(Subnets, subnetName)
    /\ last' = [NoCall EXCEPT !.op = "DeleteSubnet", !.subnet = subnetName,
                   !.held = subnetName \in DOMAIN Subnets]

\* The entries IPAM.GetPodAddress appends for one subnet.
SubnetAddresses(subs, podName, n) ==
    LET r == SubnetGetPodAddress(subs[n], podName)
    IN  IF r.protocol = ProtocolIPv4
        THEN <<[Subnet |-> n, Ip |-> r.v4, Mac |-> r.mac]>>
        ELSE IF r.protocol = ProtocolIPv6
        THEN <<[Subnet |-> n, Ip |-> r.v6, Mac |-> r.mac]>>
        ELSE <<[Subnet |-> n, Ip |-> r.v4, Mac |-> r.mac],
               [Subnet |-> n, Ip |-> r.v6, Mac |-> r.mac]>>

RECURSIVE AddressesOver(_, _, _)
\* The loop of IPAM.GetPodAddress over the subnets in todo, in any order.
AddressesOver(subs, podName, todo) ==
    IF todo = {} THEN {<<>>}
    ELSE UNION {{SubnetAddresses(subs, podName, n) \o rest :
                   rest \in AddressesOver(subs, podName, todo \ {n})} : n \in todo}

\* What IPAM.GetPodAddress may return.
IPAMGetPodAddress(subs, podName) == AddressesOver(subs, podName, DOMAIN subs)

GetPodAddress(podName) ==
    /\ Count
    /\ \E r \in IPAMGetPodAddress(Subnets, podName) :
          last' = [NoCall EXCEPT !.op = "GetPodAddress", !.pod = podName,
                      !.addresses = r]
    /\ UNCHANGED Subnets

\* IPAM.ContainAddress of an address of one family.
IPAMContainAddress(subs, address) ==
    LET fam == IF CheckProtocol(address) = ProtocolIPv4 THEN "v4" ELSE "v6"
    IN  \E n \in DOMAIN subs : SubnetContainAddress(subs[n], fam, AddrOf(address, fam))

ContainAddress(address) ==
    /\ Count
    /\ last' = [NoCall EXCEPT !.op = "ContainAddress", !.ip = address,
                   !.contains = IPAMContainAddress(Subnets, address)]
    /\ UNCHANGED Subnets

Next ==
    \/ \E p \in Pods, n \in SubnetNames : GetRandomAddress(p, n)
    \/ \E p \in Pods, ip \in IPStrings, n \in SubnetNames :
          GetStaticAddress(p, ip, Empty, n)
    \/ \E p \in Pods : ReleaseAddressByPod(p)
    \/ \E n \in SubnetNames : \E c \in CIDRStringsFor(n), x \in ExcludeLists :
          AddOrUpdateSubnet(n, c, x)
    \/ \E n \in SubnetNames : DeleteSubnet(n)

Spec == Init /\ [][Next]_vars

\* The calls above together with the two queries.
NextQuery ==
    \/ Next
    \/ \E p \in Pods : GetPodAddress(p)
    \/ \E ip \in AddressStrings : ContainAddress(ip)

SpecQuery == Init /\ [][NextQuery]_vars

----------------------------------------------------------------------------
(* Concurrent callers.  A call is cut where it takes or waits for a lock:  *)
(* IPAM.mutex (sync.RWMutex) and the lock of the Subnet it delegates to.   *)

Idle ==
    [pc |-> "idle", op |-> "none", pod |-> Empty, subnet |-> "", ip |-> NoIPString,
     cidr |-> NoCIDRString, excl |-> <<>>, seen |-> {},
     v4 |-> Empty, v6 |-> Empty, mac |-> Empty, err |-> Nil,
     addresses |-> <<>>, contains |-> FALSE]

Procs == 1..NumProcs

ReadCalls ==
    {[Idle EXCEPT !.op = "GetRandomAddress", !.pod = p, !.subnet = "s1"] : p \in Pods}
      \cup {[Idle EXCEPT !.op = "GetStaticAddress", !.pod = p, !.subnet = "s1", !.ip = ip] :
               p \in Pods,
               ip \in {[proto |-> ProtocolDual, v4 |-> 1, v6 |-> 1],
                       [proto |-> ProtocolIPv4, v4 |-> 1, v6 |-> Empty]}}
      \cup {[Idle EXCEPT !.op = "ReleaseAddressByPod", !.pod = p] : p \in Pods}
      \cup {[Idle EXCEPT !.op = "GetPodAddress", !.pod = 1],
             [Idle EXCEPT !.op = "ContainAddress",
                          !.ip = [proto |-> ProtocolIPv4, v4 |-> 1, v6 |-> Empty]]}

WriteCalls ==
    {[Idle EXCEPT !.op = "AddOrUpdateSubnet", !.subnet = "s1", !.cidr = c] :
        c \in {[proto |-> ProtocolDual, v4 |-> <<1, 1>>, v6 |-> <<1, 1>>],
                [proto |-> ProtocolIPv4, v4 |-> NoCIDR, v6 |-> NoCIDR]}}
      \cup {[Idle EXCEPT !.op = "DeleteSubnet", !.subnet = "s1"]}

InitConc ==
    /\ Subnets = EmptyMap
    /\ last = NoCall
    /\ ncalls = 0
    /\ procs = [p \in Procs |-> Idle]
    /\ mutex = [readers |-> {}, writer |-> 0]
    /\ smutex = [n \in SubnetNames |-> 0]
    /\ ctrl = NoController

\* An RLock that lets a reader in whatever a writer has announced.
RLockIgnoresWriter(p, c) ==
    /\ mutex' = [mutex EXCEPT !.readers = @ \cup {p}]
    /\ procs' = [procs EXCEPT ![p] = [c EXCEPT !.pc = "rlocked"]]

\* RWMutex.RLock: enter unless a writer has announced itself, else wait for
\* that writer's Unlock.
RLock(p, c) ==
    IF mutex.writer = 0
    THEN /\ mutex' = [mutex EXCEPT !.readers = @ \cup {p}]
         /\ procs' = [procs EXCEPT ![p] = [c EXCEPT !.pc = "rlocked"]]
    ELSE /\ mutex' = mutex
         /\ procs' = [procs EXCEPT ![p] = [c EXCEPT !.pc = "rwait"]]

\* RWMutex.RUnlock
RUnlock(p) == [mutex EXCEPT !.readers = @ \ {p}]

\* RWMutex.Lock: take the writer slot and announce, then wait until the
\* readers that are inside have left; a second writer waits for the slot.
Lock(p, c) ==
    IF mutex.writer = 0
    THEN /\ mutex' = [mutex EXCEPT !.writer = p]
         /\ procs' = [procs EXCEPT ![p] =
                [c EXCEPT !.pc = IF mutex.readers = {} THEN "wlocked" ELSE "wdrain"]]
    ELSE /\ mutex' = mutex
         /\ procs' = [procs EXCEPT ![p] = [c EXCEPT !.pc = "wwait"]]

\* A caller enters GetRandomAddress, GetStaticAddress, ReleaseAddressByPod,
\* GetPodAddress or ContainAddress.
StartRead(p) ==
    /\ procs[p].pc \in {"idle", "done"}
    /\ ncalls < MaxConcCalls
    /\ ncalls' = ncalls + 1
    /\ \E c \in ReadCalls : RLock(p, c)
    /\ UNCHANGED <<Subnets, last, smutex, ctrl>>

\* A caller enters AddOrUpdateSubnet or DeleteSubnet.
StartWrite(p) ==
    /\ procs[p].pc \in {"idle", "done"}
    /\ ncalls < MaxConcCalls
    /\ ncalls' = ncalls + 1
    /\ \E c \in WriteCalls : Lock(p, c)
    /\ UNCHANGED <<Subnets, last, smutex, ctrl>>

\* A writer that waited for the writer slot gets it.
LockSlot(p) ==
    /\ procs[p].pc = "wwait"
    /\ mutex.writer = 0
    /\ Lock(p, procs[p])
    /\ UNCHANGED <<Subnets, last, ncalls, smutex, ctrl>>

\* The last reader inside has left: the announced writer holds the lock.
LockDrained(p) ==
    /\ procs[p].pc = "wdrain"
    /\ mutex.readers = {}
    /\ procs' = [procs EXCEPT ![p].pc = "wlocked"]
    /\ UNCHANGED <<Subnets, last, ncalls, mutex, smutex, ctrl>>

\* A Subnet without a lock of its own.
SubnetLockMissing(name) == TRUE

\* Subnet lock: free for the taking.
SubnetLockFree(name) == smutex[name] = 0

Return(c, v4, v6, mac, err) ==
    [c EXCEPT !.pc = "done", !.v4 = v4, !.v6 = v6, !.mac = mac, !.err = err]

\* Lines 220-221 and 232-233: the subnet is not in the map.
NoSubnet(p) ==
    /\ procs[p].pc = "rlocked"
    /\ procs[p].op \in {"GetRandomAddress", "GetStaticAddress"}
    /\ procs[p].subnet \notin DOMAIN Subnets
    /\ procs' = [procs EXCEPT ![p] = Return(@, Empty, Empty, Empty, NoAvailableError)]
    /\ mutex' = RUnlock(p)
    /\ UNCHANGED <<Subnets, last, ncalls, smutex, ctrl>>

\* The caller enters the Subnet method it delegates to.
EnterSubnet(p) ==
    /\ procs[p].pc \in {"rlocked", "rlocked2"}
    /\ procs[p].op \in {"GetRandomAddress", "GetStaticAddress"}
    /\ procs[p].subnet \in DOMAIN Subnets
    /\ SubnetLockFree(procs[p].subnet)
    /\ smutex' = [smutex EXCEPT ![procs[p].subnet] = p]
    /\ procs' = [procs EXCEPT ![p].pc = IF @ = "rlocked" THEN "crit" ELSE "crit2"]
    /\ UNCHANGED <<Subnets, last, ncalls, mutex, ctrl>>

\* subnet.GetRandomAddress runs and IPAM.GetRandomAddress returns.
RandomExit(p) ==
    LET c == procs[p] IN
    /\ c.pc = "crit"
    /\ c.op = "GetRandomAddress"
    /\ \E r \in IPAMGetRandomAddress(Subnets, c.pod, c.subnet) :
          /\ Subnets' = r.Subnets
          /\ procs' = [procs EXCEPT ![p] = Return(c, r.v4, r.v6, r.mac, r.err)]
    /\ smutex' = [smutex EXCEPT ![c.subnet] = 0]
    /\ mutex' = RUnlock(p)
    /\ UNCHANGED <<last, ncalls, ctrl>>

\* Single-family subnet.GetStaticAddress runs and IPAM.GetStaticAddress returns.
StaticExit(p) ==
    LET c == procs[p] IN
    /\ c.pc = "crit"
    /\ c.op = "GetStaticAddress"
    /\ CheckProtocol(c.ip) # ProtocolDual
    /\ \E r \in StaticSingle(Subnets[c.subnet], c.pod, c.ip, c.mac) :
          /\ Subnets' = [Subnets EXCEPT ![c.subnet] = r.subnet]
          /\ procs' = [procs EXCEPT ![p] = Return(c, r.v4, r.v6, r.mac, r.err)]
    /\ smutex' = [smutex EXCEPT ![c.subnet] = 0]
    /\ mutex' = RUnlock(p)
    /\ UNCHANGED <<last, ncalls, ctrl>>

\* Line 238: the v4 call of the dual branch has run; the v6 call is next.
StaticDualV4(p) ==
    LET c == procs[p] IN
    /\ c.pc = "crit"
    /\ c.op = "GetStaticAddress"
    /\ CheckProtocol(c.ip) = ProtocolDual
    /\ \E r \in SubnetGetStaticAddress(Subnets[c.subnet], c.pod, "v4", c.ip.v4, c.mac, FALSE) :
          /\ Subnets' = [Subnets EXCEPT ![c.subnet] = r.subnet]
          /\ procs' = [procs EXCEPT ![p] =
                 [c EXCEPT !.pc = "rlocked2", !.v4 = r.ip, !.mac = r.mac, !.err = r.err]]
    /\ smutex' = [smutex EXCEPT ![c.subnet] = 0]
    /\ UNCHANGED <<last, ncalls, mutex, ctrl>>

\* Lines 239-241: the v6 call has run and IPAM.GetStaticAddress returns.
StaticDualV6(p) ==
    LET c == procs[p] IN
    /\ c.pc = "crit2"
    /\ \E r \in SubnetGetStaticAddress(Subnets[c.subnet], c.pod, "v6", c.ip.v6, c.mac, FALSE) :
          /\ Subnets' = [Subnets EXCEPT ![c.subnet] = r.subnet]
          /\ procs' = [procs EXCEPT ![p] = Return(c, c.v4, r.ip, r.mac, r.err)]
    /\ smutex' = [smutex EXCEPT ![c.subnet] = 0]
    /\ mutex' = RUnlock(p)
    /\ UNCHANGED <<last, ncalls, ctrl>>

\* Lines 257-259: the loop of ReleaseAddressByPod reaches its next subnet.
ReleaseEnter(p) ==
    LET c == procs[p] IN
    /\ c.pc = "rlocked"
    /\ c.op = "ReleaseAddressByPod"
    /\ \E n \in (DOMAIN Subnets) \ c.seen :
          /\ SubnetLockFree(n)
          /\ smutex' = [smutex EXCEPT ![n] = p]
          /\ procs' = [procs EXCEPT ![p] = [c EXCEPT !.pc = "crit", !.subnet = n]]
    /\ UNCHANGED <<Subnets, last, ncalls, mutex, ctrl>>

\* subnet.ReleaseAddress runs for that subnet.
ReleaseExit(p) ==
    LET c == procs[p] IN
    /\ c.pc = "crit"
    /\ c.op = "ReleaseAddressByPod"
    /\ Subnets' = [Subnets EXCEPT ![c.subnet] = SubnetReleaseAddress(@, c.pod)]
    /\ smutex' = [smutex EXCEPT ![c.subnet] = 0]
    /\ procs' = [procs EXCEPT ![p] = [c EXCEPT !.pc = "rlocked", !.seen = @ \cup {c.subnet}]]
    /\ UNCHANGED <<last, ncalls, mutex, ctrl>>

\* The loop is over every subnet: ReleaseAddressByPod returns.
ReleaseReturn(p) ==
    LET c == procs[p] IN
    /\ c.pc = "rlocked"
    /\ c.op = "ReleaseAddressByPod"
    /\ DOMAIN Subnets \subseteq c.seen
    /\ procs' = [procs EXCEPT ![p] = Return(c, Empty, Empty, Empty, Nil)]
    /\ mutex' = RUnlock(p)
    /\ UNCHANGED <<Subnets, last, ncalls, smutex, ctrl>>

\* An Unlock that frees the writer slot and wakes no reader.
UnlockWakesNobody(p, c) ==
    /\ mutex' = [readers |-> {}, writer |-> 0]
    /\ procs' = [procs EXCEPT ![p] = c]

\* RWMutex.Unlock: the readers that waited enter, the writer slot is free.
Unlock(p, c) ==
    /\ mutex' = [readers |-> {q \in DOMAIN procs : procs[q].pc = "rwait"}, writer |-> 0]
    /\ procs' = [q \in DOMAIN procs |->
                    IF q = p THEN c
                    ELSE IF procs[q].pc = "rwait" THEN [procs[q] EXCEPT !.pc = "rlocked"]
                    ELSE procs[q]]

\* GetPodAddress or ContainAddress runs under the read lock and returns.
QueryExit(p) ==
    LET c == procs[p] IN
    /\ c.pc = "rlocked"
    /\ \/ /\ c.op = "GetPodAddress"
          /\ \E r \in IPAMGetPodAddress(Subnets, c.pod) :
                procs' = [procs EXCEPT ![p] = [c EXCEPT !.pc = "done", !.addresses = r]]
       \/ /\ c.op = "ContainAddress"
          /\ procs' = [procs EXCEPT ![p] =
                [c EXCEPT !.pc = "done", !.contains = IPAMContainAddress(Subnets, c.ip)]]
    /\ mutex' = RUnlock(p)
    /\ UNCHANGED <<Subnets, last, ncalls, smutex, ctrl>>

\* The call is on the update path: the CIDR parses and the name is in the map.
Updates(c) ==
    /\ c.op = "AddOrUpdateSubnet"
    /\ c.subnet \in DOMAIN Subnets
    /\ (IF CheckProtocol(c.cidr) = ProtocolDual
         THEN CheckDualCidrs(c.cidr).err ELSE ParseCIDR(c.cidr).err) = Nil

\* Lines 283-290: AddOrUpdateSubnet, under the write lock, has rebuilt the
\* lists of the existing subnet and is about to re-record its assignments.
AddOrUpdateRebuild(p) ==
    LET c == procs[p] IN
    /\ c.pc = "wlocked"
    /\ Updates(c)
    /\ Subnets' = [Subnets EXCEPT ![c.subnet] = UpdateRebuild(@, c.cidr, c.excl)]
    /\ procs' = [procs EXCEPT ![p].pc = "wupdate"]
    /\ UNCHANGED <<last, ncalls, mutex, smutex, ctrl>>

\* AddOrUpdateSubnet runs under the write lock, or runs on from the rebuilt
\* lists, and returns.
AddOrUpdateExit(p) ==
    LET c == procs[p] IN
    /\ c.pc = "wupdate" \/ (c.pc = "wlocked" /\ ~Updates(c))
    /\ c.op = "AddOrUpdateSubnet"
    /\ \E r \in IPAMAddOrUpdateSubnet(Subnets, c.subnet, c.cidr, c.excl) :
          /\ Subnets' = r.Subnets
          /\ Unlock(p, Return(c, Empty, Empty, Empty, r.err))
    /\ UNCHANGED <<last, ncalls, smutex, ctrl>>

\* DeleteSubnet runs under the write lock and returns.
DeleteExit(p) ==
    LET c == procs[p] IN
    /\ c.pc = "wlocked"
    /\ c.op = "DeleteSubnet"
    /\ Subnets' = IPAMDeleteSubnet(Subnets, c.subnet)
    /\ Unlock(p, Return(c, Empty, Empty, Empty, Nil))
    /\ UNCHANGED <<last, ncalls, smutex, ctrl>>

NextConc ==
    \E p \in Procs :
        \/ StartRead(p)
        \/ StartWrite(p)
        \/ LockSlot(p)
        \/ LockDrained(p)
        \/ NoSubnet(p)
        \/ EnterSubnet(p)
        \/ RandomExit(p)
        \/ StaticExit(p)
        \/ StaticDualV4(p)
        \/ StaticDualV6(p)
        \/ ReleaseEnter(p)
        \/ ReleaseExit(p)
        \/ ReleaseReturn(p)
        \/ QueryExit(p)
        \/ AddOrUpdateRebuild(p)
        \/ AddOrUpdateExit(p)
        \/ DeleteExit(p)

SpecConc == InitConc /\ [][NextConc]_vars

\* What a caller that is inside a call does next.  The scheduler runs every
\* goroutine that can run; whether a caller starts a call is up to it.
Progress(p) ==
    \/ LockSlot(p)
    \/ LockDrained(p)
    \/ NoSubnet(p)
    \/ EnterSubnet(p)
    \/ RandomExit(p)
    \/ StaticExit(p)
    \/ StaticDualV4(p)
    \/ StaticDualV6(p)
    \/ ReleaseEnter(p)
    \/ ReleaseExit(p)
    \/ ReleaseReturn(p)
    \/ QueryExit(p)
    \/ AddOrUpdateRebuild(p)
    \/ AddOrUpdateExit(p)
    \/ DeleteExit(p)

SpecLive == SpecConc /\ \A p \in Procs : WF_vars(Progress(p))

----------------------------------------------------------------------------
(* RaceN owners ask one subnet with exactly RaceN free addresses for a     *)
(* random address at the same time; one more owner asks afterwards.        *)

RacePods == 1..(RaceN + 1)

RaceSubnet ==
    NewSubnet("s1", [proto |-> ProtocolIPv4, v4 |-> <<1, RaceN>>, v6 |-> NoCIDR], <<>>).subnet

InitRace ==
    /\ Subnets = [n \in {"s1"} |-> RaceSubnet]
    /\ last = NoCall
    /\ ncalls = 0
    /\ procs = [p \in RacePods |-> Idle]
    /\ mutex = [readers |-> {}, writer |-> 0]
    /\ smutex = [n \in SubnetNames |-> 0]
    /\ ctrl = NoController

RaceStart(p) ==
    /\ procs[p].pc = "idle"
    /\ p <= RaceN \/ \A q \in 1..RaceN : procs[q].pc = "done"
    /\ RLock(p, [Idle EXCEPT !.op = "GetRandomAddress", !.pod = p, !.subnet = "s1"])
    /\ UNCHANGED <<Subnets, last, ncalls, smutex, ctrl>>

NextRace ==
    \E p \in RacePods :
        \/ RaceStart(p)
        \/ EnterSubnet(p)
        \/ RandomExit(p)

SpecRace == InitRace /\ [][NextRace]_vars

----------------------------------------------------------------------------
(* The daemon's gateway loop: runGateway reads the subnet and pod objects  *)
(* through the listers, replaces three ipsets and checks four iptables     *)
(* rules.                                                                  *)

SubnetSet == "subnets"

SubnetNatSet == "subnets-nat"

LocalPodSet == "local-pod-ip-nat"

podNatV4Rule == [Table |-> "nat", Chain |-> "POSTROUTING", Rule |-> "ovn40local-pod-ip-nat"]

subnetNatV4Rule == [Table |-> "nat", Chain |-> "POSTROUTING", Rule |-> "ovn40subnets-nat"]

podNatV6Rule == [Table |-> "nat", Chain |-> "POSTROUTING", Rule |-> "ovn60local-pod-ip-nat"]

subnetNatV6Rule == [Table |-> "nat", Chain |-> "POSTROUTING", Rule |-> "ovn60subnets-nat"]

forwardAcceptRule1 == [Table |-> "filter", Chain |-> "FORWARD", Rule |-> "-i ovn0"]

forwardAcceptRule2 == [Table |-> "filter", Chain |-> "FORWARD", Rule |-> "-o ovn0"]

GWDistributedType == "distributed"

GWCentralizedType == "centralized"

\* The error of a lister call that fails.
ListError == "ListError"

\* The error of subnetsLister.Get for a name it does not hold.
NotFoundError == "NotFound"

Nodes == {"node1", "node2"}

\* os.Getenv("KUBE_NODE_NAME") and c.config.NodeName: the local node.
Hostname == "node1"

NodeName == "node1"

ServiceClusterIPRange == "10.96.0.0/12"

NodeLocalDNSIP == "169.254.20.10"

\* Pod objects: Spec.HostNetwork, Status.PodIP ("" or one address), the
\* logical switch annotation and Spec.NodeName.
PodIPs ==
    {NoIPString,
     [proto |-> ProtocolIPv4, v4 |-> 1, v6 |-> Empty],
     [proto |-> ProtocolIPv6, v4 |-> Empty, v6 |-> 1]}

PodObjects ==
    [HostNetwork : BOOLEAN, PodIP : PodIPs, LogicalSwitch : SubnetNames, NodeName : Nodes]

PodLists == UNION {[1..k -> PodObjects] : k \in 0..MaxPodList}

\* Subnet objects: name, Spec.GatewayType, Spec.NatOutgoing, Spec.Protocol,
\* Spec.CIDRBlock and Status.ActivateGateway.  Only "s1" is ever defined.
SubnetObjects ==
    {[Name |-> "s1", GatewayType |-> t, NatOutgoing |-> nat, Protocol |-> pr,
      CIDRBlock |-> IF pr = ProtocolIPv4 THEN "10.16.0.0/16" ELSE "fd00:10:16::/64",
      ActivateGateway |-> g] :
        t \in {GWDistributedType, GWCentralizedType}, nat \in BOOLEAN,
        pr \in {ProtocolIPv4, ProtocolIPv6}, g \in Nodes}

SubnetLists == {<<>>} \cup {<<o>> : o \in SubnetObjects}

\* c.subnetsLister.Get
subnetsListerGet(subnets, name) ==
    IF \E i \in DOMAIN subnets : subnets[i].Name = name
    THEN [subnet |-> subnets[CHOOSE i \in DOMAIN subnets : subnets[i].Name = name],
          err |-> Nil]
    ELSE [subnet |-> Empty, err |-> NotFoundError]

\* The test of lines 131-134 without the comparison of the node names.
PodNeedsNATAnyNode(pod, subnet, hostname, protocol) ==
    /\ subnet.NatOutgoing
    /\ subnet.GatewayType = GWDistributedType
    /\ CheckProtocol(pod.PodIP) = protocol

\* The test of lines 131-134.
PodNeedsNAT(pod, subnet, hostname, protocol) ==
    /\ subnet.NatOutgoing
    /\ subnet.GatewayType = GWDistributedType
    /\ pod.NodeName = hostname
    /\ CheckProtocol(pod.PodIP) = protocol

RECURSIVE LocalPodIPsFrom(_, _, _, _, _)
\* The loop of getLocalPodIPsNeedNAT from pod i on, localPodIPs so far.
LocalPodIPsFrom(allPods, subnets, protocol, i, localPodIPs) ==
    IF i > Len(allPods) THEN localPodIPs
    ELSE LET pod == allPods[i]
             got == subnetsListerGet(subnets, pod.LogicalSwitch)
         IN  IF pod.HostNetwork \/ pod.PodIP = NoIPString
             THEN LocalPodIPsFrom(allPods, subnets, protocol, i + 1, localPodIPs)
             ELSE IF got.err # Nil
             THEN LocalPodIPsFrom(allPods, subnets, protocol, i + 1, localPodIPs)
             ELSE IF PodNeedsNAT(pod, got.subnet, Hostname, protocol)
             THEN LocalPodIPsFrom(allPods, subnets, protocol, i + 1,
                                  Append(localPodIPs, pod.PodIP))
             ELSE LocalPodIPsFrom(allPods, subnets, protocol, i + 1, localPodIPs)

\* listFails: c.podsLister.List returns an error.
getLocalPodIPsNeedNAT(pods, subnets, protocol, listFails) ==
    IF listFails THEN [ret |-> <<>>, err |-> ListError]
    ELSE [ret |-> LocalPodIPsFrom(pods, subnets, protocol, 1, <<>>), err |-> Nil]

\* The CIDR blocks of a list of subnet objects.
CIDRBlocks(list) == [i \in DOMAIN list |-> list[i].CIDRBlock]

SubnetNeedsNAT(subnet, protocol) ==
    /\ subnet.GatewayType = GWCentralizedType
    /\ subnet.ActivateGateway = NodeName
    /\ subnet.Protocol = protocol
    /\ subnet.NatOutgoing

\* listFails: c.subnetsLister.List returns an error.
getSubnetsNeedNAT(subnets, protocol, listFails) ==
    IF listFails THEN [ret |-> <<>>, err |-> ListError]
    ELSE [ret |-> CIDRBlocks(SelectSeq(subnets, LAMBDA o : SubnetNeedsNAT(o, protocol))),
          err |-> Nil]

SameProtocol(subnet, protocol) == subnet.Protocol = protocol

getSubnetsCIDR(subnets, protocol, listFails) ==
    IF listFails THEN [ret |-> <<>>, err |-> ListError]
    ELSE [ret |-> <<ServiceClusterIPRange>>
                    \o (IF NodeLocalDNSIP # "" THEN <<NodeLocalDNSIP>> ELSE <<>>)
                    \o CIDRBlocks(SelectSeq(subnets, LAMBDA o : SameProtocol(o, protocol))),
          err |-> Nil]

\* The rules runGateway checks, in the order of line 95.
GatewayRules(protocol) ==
    IF protocol = ProtocolIPv4
    THEN <<forwardAcceptRule1, forwardAcceptRule2, podNatV4Rule, subnetNatV4Rule>>
    ELSE <<forwardAcceptRule1, forwardAcceptRule2, podNatV6Rule, subnetNatV6Rule>>

\* A Controller about to run runGateway: the objects behind its listers,
\* no ipset written yet, one of the rules already in iptables.
InitGateway ==
    /\ Subnets = EmptyMap
    /\ last = NoCall
    /\ ncalls = 0
    /\ procs = EmptyMap
    /\ mutex = [readers |-> {}, writer |-> 0]
    /\ smutex = [n \in SubnetNames |-> 0]
    /\ \E pr \in {ProtocolIPv4, ProtocolIPv6}, pl \in PodLists, sl \in SubnetLists :
          ctrl = [pc |-> "start", protocol |-> pr, pods |-> pl, subnets |-> sl,
                  subnetsCIDR |-> <<>>, localPodIPs |-> <<>>, subnetsNeedNat |-> <<>>,
                  queried |-> {}, failed |-> "",
                  pending |-> EmptyMap, kernel |-> EmptyMap, applied |-> FALSE,
                  rules |-> {forwardAcceptRule1}, touched |-> {}, i |-> 1]

\* A query failure that runGateway ignores.
AfterQueryIgnoresError(err, next) == next

\* Lines 56-59, 61-64, 66-69: runGateway returns when the query failed.
AfterQuery(err, next) == IF err # Nil THEN "returned" ELSE next

\* Lines 55-59
runGatewaySubnetsCIDR ==
    /\ ctrl.pc = "start"
    /\ \E listFails \in BOOLEAN :
          LET r == getSubnetsCIDR(ctrl.subnets, ctrl.protocol, listFails)
          IN  ctrl' = [ctrl EXCEPT
                  !.pc = AfterQuery(r.err, "localPodIPs"),
                  !.subnetsCIDR = r.ret,
                  !.queried = IF r.err = Nil THEN @ \cup {"getSubnetsCIDR"} ELSE @,
                  !.failed = IF r.err = Nil THEN @ ELSE "getSubnetsCIDR"]
    /\ UNCHANGED <<Subnets, last, ncalls, procs, mutex, smutex>>

\* Lines 60-64
runGatewayLocalPodIPs ==
    /\ ctrl.pc = "localPodIPs"
    /\ \E listFails \in BOOLEAN :
          LET r == getLocalPodIPsNeedNAT(ctrl.pods, ctrl.subnets, ctrl.protocol, listFails)
          IN  ctrl' = [ctrl EXCEPT
                  !.pc = AfterQuery(r.err, "subnetsNeedNat"),
                  !.localPodIPs = r.ret,
                  !.queried = IF r.err = Nil THEN @ \cup {"getLocalPodIPsNeedNAT"} ELSE @,
                  !.failed = IF r.err = Nil THEN @ ELSE "getLocalPodIPsNeedNAT"]
    /\ UNCHANGED <<Subnets, last, ncalls, procs, mutex, smutex>>

\* Lines 65-69
runGatewaySubnetsNeedNAT ==
    /\ ctrl.pc = "subnetsNeedNat"
    /\ \E listFails \in BOOLEAN :
          LET r == getSubnetsNeedNAT(ctrl.subnets, ctrl.protocol, listFails)
          IN  ctrl' = [ctrl EXCEPT
                  !.pc = AfterQuery(r.err, "ipsets"),
                  !.subnetsNeedNat = r.ret,
                  !.queried = IF r.err = Nil THEN @ \cup {"getSubnetsNeedNAT"} ELSE @,
                  !.failed = IF r.err = Nil THEN @ ELSE "getSubnetsNeedNAT"]
    /\ UNCHANGED <<Subnets, last, ncalls, procs, mutex, smutex>>

\* c.ipset.AddOrReplaceIPSet: the members wanted for the set.
AddOrReplaceIPSet(pending, setID, members) == MapPut(pending, setID, members)

\* Lines 70-84: the three AddOrReplaceIPSet calls.
runGatewayReplaceIPSets ==
    /\ ctrl.pc = "ipsets"
    /\ ctrl' = [ctrl EXCEPT
          !.pc = "apply",
          !.pending = AddOrReplaceIPSet(
                        AddOrReplaceIPSet(
                          AddOrReplaceIPSet(@, SubnetSet, ctrl.subnetsCIDR),
                          LocalPodSet, ctrl.localPodIPs),
                        SubnetNatSet, ctrl.subnetsNeedNat)]
    /\ UNCHANGED <<Subnets, last, ncalls, procs, mutex, smutex>>

\* Line 85: c.ipset.ApplyUpdates writes the wanted sets.
runGatewayApplyUpdates ==
    /\ ctrl.pc = "apply"
    /\ ctrl' = [ctrl EXCEPT !.pc = "rules", !.kernel = ctrl.pending, !.applied = TRUE]
    /\ UNCHANGED <<Subnets, last, ncalls, procs, mutex, smutex>>

\* Lines 95-108: one turn of the loop over the rules.  existsFails and
\* insertFails: c.iptable.Exists and c.iptable.Insert return an error.
runGatewayRule ==
    /\ ctrl.pc = "rules"
    /\ \E existsFails \in BOOLEAN, insertFails \in BOOLEAN :
          LET iptRule == GatewayRules(ctrl.protocol)[ctrl.i]
              exists == iptRule \in ctrl.rules
              on == IF ctrl.i = Len(GatewayRules(ctrl.protocol)) THEN "returned" ELSE "rules"
          IN  ctrl' =
                IF existsFails
                THEN [ctrl EXCEPT !.pc = "returned", !.touched = @ \cup {iptRule}]
                ELSE IF exists
                THEN [ctrl EXCEPT !.pc = on, !.i = @ + 1, !.touched = @ \cup {iptRule}]
                ELSE IF insertFails
                THEN [ctrl EXCEPT !.pc = "returned", !.touched = @ \cup {iptRule}]
                ELSE [ctrl EXCEPT !.pc = on, !.i = @ + 1, !.touched = @ \cup {iptRule},
                                  !.rules = @ \cup {iptRule}]
    /\ UNCHANGED <<Subnets, last, ncalls, procs, mutex, smutex>>

NextGateway ==
    \/ runGatewaySubnetsCIDR
    \/ runGatewayLocalPodIPs
    \/ runGatewaySubnetsNeedNAT
    \/ runGatewayReplaceIPSets
    \/ runGatewayApplyUpdates
    \/ runGatewayRule

SpecGateway == InitGateway /\ [][NextGateway]_vars

----------------------------------------------------------------------------
(* Properties *)

\* The addresses of family f that owners hold in subnet sub.
Assigned(sub, f) == {sub.PodToIP[f][p] : p \in DOMAIN sub.PodToIP[f]}

\* The families an address string asks for.
Asked(ip) == FamiliesOf(CheckProtocol(ip))

\* A CIDR string in which a block it needs does not parse.
BadCIDR(c) == \E f \in FamiliesOf(CheckProtocol(c)) : AddrOf(c, f) = NoCIDR

\* C1: within each subnet and family, two distinct owners never hold the
\* same address.
C1_NoDoubleAssignment ==
    \A n \in DOMAIN Subnets : \A f \in Families :
        \A p, q \in DOMAIN Subnets[n].PodToIP[f] :
            p # q => Subnets[n].PodToIP[f][p] # Subnets[n].PodToIP[f][q]

\* C2: in every subnet and family the free set, the reserved set and the
\* set of assigned addresses are pairwise disjoint.
C2_Disjoint ==
    \A n \in DOMAIN Subnets : \A f \in Families :
        LET sub == Subnets[n] IN
        /\ Cover(sub.FreeIPList[f]) \cap Assigned(sub, f) = {}
        /\ Cover(sub.FreeIPList[f]) \cap Cover(sub.ReservedIPList[f]) = {}
        /\ Cover(sub.ReservedIPList[f]) \cap Assigned(sub, f) = {}

RaceAllDone == \A p \in DOMAIN procs : procs[p].pc = "done"

InSubnet(p) == procs[p].pc \in {"crit", "crit2"}

C5_AllOrNothing ==
    (/\ \/ last.op = "GetRandomAddress"
        \/ last.op = "GetStaticAddress" /\ CheckProtocol(last.ip) = ProtocolDual
     /\ last.subnet \in DOMAIN Subnets
     /\ Subnets[last.subnet].Protocol = ProtocolDual
     /\ ~last.held)
      => (last.pod \in DOMAIN Subnets[last.subnet].PodToIP["v4"]
            <=> last.pod \in DOMAIN Subnets[last.subnet].PodToIP["v6"])

\* C6: a dual-stack GetStaticAddress call in which the v4 or the v6
\* allocation failed returns an error.
C6_ErrorsReturned ==
    (/\ last.op = "GetStaticAddress"
     /\ CheckProtocol(last.ip) = ProtocolDual
     /\ last.err4 # Nil \/ last.err6 # Nil)
      => last.err # Nil

\* C7: AddOrUpdateSubnet with a CIDR string that does not parse returns
\* InvalidCIDRError and leaves the subnet map as it was.
C7_InvalidCIDR ==
    [][(last'.op = "AddOrUpdateSubnet" /\ BadCIDR(last'.cidr))
         => (last'.err = InvalidCIDRError /\ Subnets' = Subnets)]_vars

\* A rejected reconfiguration of a subnet in which an owner holds an address.
C7_Witness ==
    /\ last.op = "AddOrUpdateSubnet"
    /\ BadCIDR(last.cidr)
    /\ last.err = InvalidCIDRError
    /\ last.subnet \in DOMAIN Subnets
    /\ \E f \in Families : DOMAIN Subnets[last.subnet].PodToIP[f] # {}

\* C8: AddOrUpdateSubnet on an existing name with a CIDR that parses
\* returns no error, and every owner whose address the new CIDR does not
\* cover holds the same address afterwards.
C8_ReconfigKeepsAssignments ==
    [][(last'.op = "AddOrUpdateSubnet" /\ last'.held /\ ~BadCIDR(last'.cidr))
         => /\ last'.err = Nil
            /\ last'.subnet \in DOMAIN Subnets'
            /\ \A f \in Families : \A p \in DOMAIN Subnets[last'.subnet].PodToIP[f] :
                  ~CIDRContains(AddrOf(last'.cidr, f), Subnets[last'.subnet].PodToIP[f][p])
                    => /\ p \in DOMAIN Subnets'[last'.subnet].PodToIP[f]
                       /\ Subnets'[last'.subnet].PodToIP[f][p]
                            = Subnets[last'.subnet].PodToIP[f][p]]_vars

\* A reconfiguration has succeeded and an owner holds an address that the
\* new CIDR does not cover.
C8_Witness ==
    /\ last.op = "AddOrUpdateSubnet"
    /\ last.held
    /\ last.err = Nil
    /\ last.subnet \in DOMAIN Subnets
    /\ \E p \in DOMAIN Subnets[last.subnet].PodToIP["v4"] :
          ~CIDRContains(AddrOf(last.cidr, "v4"), Subnets[last.subnet].PodToIP["v4"][p])

\* C9: GetRandomAddress and GetStaticAddress for a name that is not in the
\* subnet map return NoAvailableError with empty addresses and MAC and
\* leave every subnet as it was.
C9_UnknownSubnet ==
    [][(last'.op \in {"GetRandomAddress", "GetStaticAddress"}
          /\ last'.subnet \notin DOMAIN Subnets)
         => /\ last'.err = NoAvailableError
            /\ last'.v4 = Empty /\ last'.v6 = Empty /\ last'.rmac = Empty
            /\ Subnets' = Subnets]_vars

\* A call for a name that is not in the map, while another subnet holds
\* an assignment.
C9_Witness ==
    /\ last.op \in {"GetRandomAddress", "GetStaticAddress"}
    /\ last.subnet \notin DOMAIN Subnets
    /\ last.err = NoAvailableError
    /\ \E n \in DOMAIN Subnets : \E f \in Families : DOMAIN Subnets[n].PodToIP[f] # {}

\* The requested address of family f lies outside the subnet's CIDR.
AskedOutside(sub, ip, f) == f \in Asked(ip) /\ ~CIDRContains(sub.CIDR[f], AddrOf(ip, f))

\* The requested address of family f is held by another owner.
AskedTaken(sub, ip, f, podName) ==
    /\ f \in Asked(ip)
    /\ \E q \in DOMAIN sub.PodToIP[f] : q # podName /\ sub.PodToIP[f][q] = AddrOf(ip, f)

\* C10: GetStaticAddress for an address outside the subnet's CIDR fails
\* with OutOfRangeError, for an address another owner holds it fails with
\* ConflictError; either way the assignments and the free list stay as
\* they were.
C10_StaticRejected ==
    [][(last'.op = "GetStaticAddress" /\ last'.subnet \in DOMAIN Subnets)
         => LET sub == Subnets[last'.subnet]
                new == Subnets'[last'.subnet]
                outside == \E f \in Families : AskedOutside(sub, last'.ip, f)
                taken == \E f \in Families : AskedTaken(sub, last'.ip, f, last'.pod)
                same == new.PodToIP = sub.PodToIP /\ new.FreeIPList = sub.FreeIPList
            IN  /\ (outside /\ ~taken) => (last'.err = OutOfRangeError /\ same)
                /\ (taken /\ ~outside) => (last'.err = ConflictError /\ same)]_vars

\* C11: a GetRandomAddress call for an owner that holds an assignment in
\* the subnet returns the addresses and the MAC recorded for that owner and
\* leaves every subnet, its free lists included, as it was; when the call
\* before it was a successful GetRandomAddress for the same owner and
\* subnet, it returns what that call returned.
C11_IdempotentRandom ==
    [][(/\ last'.op = "GetRandomAddress"
        /\ last'.subnet \in DOMAIN Subnets
        /\ \E f \in Families : last'.pod \in DOMAIN Subnets[last'.subnet].PodToIP[f])
         => LET sub == Subnets[last'.subnet]
            IN  /\ last'.err = Nil
                /\ last'.v4 = MapGet(sub.PodToIP["v4"], last'.pod)
                /\ last'.v6 = MapGet(sub.PodToIP["v6"], last'.pod)
                /\ last'.rmac = MapGet(sub.PodToMac, last'.pod)
                /\ Subnets' = Subnets
                /\ (/\ last.op = "GetRandomAddress" /\ last.err = Nil
                     /\ last.pod = last'.pod /\ last.subnet = last'.subnet)
                      => (/\ last'.v4 = last.v4 /\ last'.v6 = last.v6
                          /\ last'.rmac = last.rmac)]_vars

\* Two successful GetRandomAddress calls in a row for one owner and subnet
\* are behind us; the second found the owner holding an address.
C11_Witness ==
    /\ last.op = "GetRandomAddress"
    /\ last.held
    /\ last.err = Nil
    /\ last.v4 # Empty
    /\ last.subnet \in DOMAIN Subnets
    /\ Cover(Subnets[last.subnet].FreeIPList["v4"]) # {}

\* C12: a GetRandomAddress call that allocates takes exactly the returned
\* address out of the free set of each family, and ReleaseAddressByPod for
\* an owner puts each address the owner holds back: the free set is the one
\* before the release plus that address (so the one before the allocation),
\* the list is sorted with disjoint, non-adjacent ranges, and an allocation
\* can return the address again.
C12_ReleaseRoundTrip ==
    [][/\ (/\ last'.op = "GetRandomAddress" /\ last'.err = Nil /\ ~last'.held)
            => \A f \in FamiliesOf(Subnets[last'.subnet].Protocol) :
                 LET a == IF f = "v4" THEN last'.v4 ELSE last'.v6
                 IN  /\ a \in Cover(Subnets[last'.subnet].FreeIPList[f])
                     /\ Cover(Subnets'[last'.subnet].FreeIPList[f])
                          = Cover(Subnets[last'.subnet].FreeIPList[f]) \ {a}
       /\ last'.op = "ReleaseAddressByPod"
            => \A n \in DOMAIN Subnets : \A f \in Families :
                 last'.pod \in DOMAIN Subnets[n].PodToIP[f]
                   => LET a == Subnets[n].PodToIP[f][last'.pod]
                          new == Subnets'[n].FreeIPList[f]
                      IN  /\ Cover(new) = Cover(Subnets[n].FreeIPList[f]) \cup {a}
                          /\ Canonical(new)
                          /\ \E pk \in PicksOf(new) : pk[2] = a]_vars

\* C13: after ReleaseAddressByPod the owner holds no address in any subnet
\* and family, the same subnets are in the map, and every other owner
\* holds exactly the addresses it held.
C13_ReleaseEverywhere ==
    [][last'.op = "ReleaseAddressByPod"
         => /\ DOMAIN Subnets' = DOMAIN Subnets
            /\ \A n \in DOMAIN Subnets : \A f \in Families :
                  /\ last'.pod \notin DOMAIN Subnets'[n].PodToIP[f]
                  /\ DOMAIN Subnets'[n].PodToIP[f]
                       = (DOMAIN Subnets[n].PodToIP[f]) \ {last'.pod}
                  /\ \A q \in DOMAIN Subnets'[n].PodToIP[f] :
                        Subnets'[n].PodToIP[f][q] = Subnets[n].PodToIP[f][q]]_vars

\* An owner that held addresses in two subnets has been released.
C13_Witness ==
    /\ last.op = "ReleaseAddressByPod"
    /\ Cardinality(last.had) = 2

\* C14: GetPodAddress returns, for each subnet, as many entries as there
\* are families in which the owner holds an address there (none for a
\* subnet in which it holds nothing), each entry carries an address the
\* owner holds in that subnet, and no entry has an empty address.
C14_PodAddressEntries ==
    last.op = "GetPodAddress"
      => /\ \A i \in DOMAIN last.addresses : last.addresses[i].Ip # Empty
         /\ \A n \in DOMAIN Subnets :
               LET held == {f \in Families : last.pod \in DOMAIN Subnets[n].PodToIP[f]}
                   mine == {i \in DOMAIN last.addresses : last.addresses[i].Subnet = n}
               IN  /\ Cardinality(mine) = Cardinality(held)
                   /\ \A i \in mine : \E f \in held :
                         last.addresses[i].Ip = Subnets[n].PodToIP[f][last.pod]

\* C15: when the only subnet in the map has just been configured by a
\* successful AddOrUpdateSubnet, ContainAddress answers true exactly for
\* the addresses inside the CIDR that call configured.
C15_ContainFollowsCIDR ==
    [][(/\ last.op = "AddOrUpdateSubnet" /\ last.err = Nil
        /\ DOMAIN Subnets = {last.subnet}
        /\ last'.op = "ContainAddress")
         => LET f == IF CheckProtocol(last'.ip) = ProtocolIPv4 THEN "v4" ELSE "v6"
            IN  last'.contains
                  <=> CIDRContains(AddrOf(last.cidr, f), AddrOf(last'.ip, f))]_vars

\* C16: DeleteSubnet leaves the subnet map without the named subnet and
\* with every other subnet exactly as it was; a call of any other method
\* removes no subnet from the map.
C16_DeleteSubnetFrame ==
    [][/\ last'.op = "DeleteSubnet"
            => Subnets' = [n \in (DOMAIN Subnets) \ {last'.subnet} |-> Subnets[n]]
       /\ last'.op # "DeleteSubnet"
            => DOMAIN Subnets \subseteq DOMAIN Subnets']_vars

\* A subnet that was in the map has been deleted while another subnet, in
\* which an owner holds an address, stays.
C16_Witness ==
    /\ last.op = "DeleteSubnet"
    /\ last.held
    /\ \E n \in DOMAIN Subnets : \E f \in Families : DOMAIN Subnets[n].PodToIP[f] # {}

\* The pod is one whose IP getLocalPodIPsNeedNAT has to return.
NATPod(pod, subnets, protocol) ==
    /\ ~pod.HostNetwork
    /\ pod.PodIP # NoIPString
    /\ pod.PodIP.proto = protocol
    /\ pod.NodeName = Hostname
    /\ \E i \in DOMAIN subnets :
          /\ subnets[i].Name = pod.LogicalSwitch
          /\ subnets[i].NatOutgoing
          /\ subnets[i].GatewayType = GWDistributedType

\* C17: when getLocalPodIPsNeedNAT succeeds it returns the pod IPs of
\* exactly the pods that are not host-network, have a pod IP of the
\* requested protocol, run on the local node and whose subnet exists with
\* outbound NAT and the distributed gateway type, one entry per such pod in
\* the order of the pod list; the pod and subnet objects stay as they were.
C17_LocalPodIPs ==
    [][(ctrl.pc = "localPodIPs" /\ "getLocalPodIPsNeedNAT" \in ctrl'.queried)
         => LET want == SelectSeq(ctrl.pods,
                                  LAMBDA pod : NATPod(pod, ctrl.subnets, ctrl.protocol))
            IN  /\ ctrl'.localPodIPs = [i \in DOMAIN want |-> want[i].PodIP]
                /\ ctrl'.pods = ctrl.pods
                /\ ctrl'.subnets = ctrl.subnets]_vars

\* The query has returned the IP of one of two pods.
C17_Witness ==
    /\ "getLocalPodIPsNeedNAT" \in ctrl.queried
    /\ Len(ctrl.pods) = 2
    /\ Len(ctrl.localPodIPs) = 1
    /\ ctrl.pods[1].PodIP # NoIPString
    /\ ctrl.pods[2].PodIP # NoIPString

\* C20: when one of the three queries has failed, runGateway has returned
\* with no ipset replaced or applied and no iptables rule checked or
\* inserted; ipsets are replaced only once the three queries have
\* succeeded, and iptables rules are checked or inserted only once the
\* ipset update has been applied.
C20_RunGatewayOrder ==
    /\ ctrl.failed # ""
         => /\ ctrl.pc = "returned"
            /\ DOMAIN ctrl.pending = {} /\ DOMAIN ctrl.kernel = {} /\ ~ctrl.applied
            /\ ctrl.touched = {} /\ ctrl.rules = {forwardAcceptRule1}
    /\ (DOMAIN ctrl.pending # {} \/ ctrl.applied)
         => ctrl.queried = {"getSubnetsCIDR", "getLocalPodIPsNeedNAT", "getSubnetsNeedNAT"}
    /\ ctrl.applied => DOMAIN ctrl.kernel = {SubnetSet, LocalPodSet, SubnetNatSet}
    /\ (ctrl.touched # {} \/ ctrl.rules # {forwardAcceptRule1}) => ctrl.applied

\* The third query has failed after the first two succeeded.
C20_Witness ==
    /\ ctrl.failed = "getSubnetsNeedNAT"
    /\ ctrl.pc = "returned"
    /\ Len(ctrl.localPodIPs) > 0

\* A caller holds the read lock: it is past RLock and has not returned.
Reading(p) == procs[p].pc \in {"rlocked", "crit", "rlocked2", "crit2"}

\* A caller holds the write lock.
Writing(p) == procs[p].pc \in {"wlocked", "wupdate"}

\* C18: while a caller is inside AddOrUpdateSubnet or DeleteSubnet under
\* the write lock, the rebuilt lists of a reconfiguration included, no call
\* of GetRandomAddress, GetStaticAddress, ReleaseAddressByPod,
\* GetPodAddress or ContainAddress is past its RLock, and no caller is
\* inside a Subnet.
C18_ReconfigExcludesReaders ==
    \A p \in DOMAIN procs :
        Writing(p)
          => /\ mutex.readers = {}
             /\ \A q \in DOMAIN procs : q # p => ~Reading(q) /\ ~Writing(q)
             /\ \A n \in SubnetNames : smutex[n] = 0

\* A reconfiguration has rebuilt the free list, which holds an address
\* that an owner holds, and a reader waits at RLock.
C18_Witness ==
    \E p, q \in DOMAIN procs :
        /\ procs[p].pc = "wupdate"
        /\ procs[q].pc = "rwait"
        /\ \E f \in Families :
              Cover(Subnets[procs[p].subnet].FreeIPList[f])
                \cap Assigned(Subnets[procs[p].subnet], f) # {}

\* A caller is inside a call.
Calling(p) == procs[p].pc \notin {"idle", "done"}

\* C19: a caller that is not inside a call holds no registry lock, and
\* every call a caller is inside eventually returns.
C19_NoDeadlock ==
    /\ [](\A p \in Procs : ~Calling(p) => (p \notin mutex.readers /\ mutex.writer # p))
    /\ \A p \in Procs : Calling(p) ~> ~Calling(p)

\* A writer waits for the reader inside to leave while that reader is
\* inside a Subnet.
C19_Witness ==
    \E p, q \in DOMAIN procs :
        /\ procs[p].pc = "wdrain"
        /\ procs[q].pc \in {"crit", "crit2"}

====
